---- MODULE Spec2Model ----
(***************************************************************************)
(* State-machine model of the Angular forms tutorial components.           *)
(*                                                                         *)
(* Part 1: CheckoutFormComponent, the four-step checkout wizard.           *)
(* Part 2: RegistrationFormComponent, with its timed e-mail check.         *)
(* Parts 3 to 7: TemplateFormIntro, ReactiveFormIntro,                     *)
(* SurveyFormComponent, DynamicTodoListComponent, DocumentationComponent.  *)
(*                                                                         *)
(* Text values are TLA+ strings, inspected character by character with     *)
(* Len and SubSeq.  Money is fixed-point: an amount is an integer number   *)
(* of thousandths of the currency unit (99.99 is 99990), so that the       *)
(* unrounded tax of the source is exact; toFixed(2) yields a number of     *)
(* hundredths (cents).                                                     *)
(***************************************************************************)
EXTENDS Integers, Sequences, FiniteSets, TLC

VARIABLES
  currentStep,       \* CheckoutFormComponent.currentStep
  cartForm,          \* value of cartForm, one field per control
  shippingForm,      \* value of shippingForm
  paymentForm,       \* value of paymentForm
  confirmationForm,  \* value of confirmationForm
  touched,           \* form name -> set of control names whose touched flag is set
  orderData,         \* CheckoutFormComponent.orderData, NoOrder until an order is placed
  now,               \* the millisecond clock read by Date.now()
  edits,             \* number of field edits so far (bounded by MaxEdits)
  placed,            \* history: the orderNumber of every successful placeOrder, in order
  lastOp,            \* history: the handler that ran last, with what it observed
  regForm,           \* RegistrationFormComponent: value of registrationForm
  regTouched,        \* names of the registrationForm controls whose touched flag is set
  submitted,         \* RegistrationFormComponent.submitted
  submittedData,     \* RegistrationFormComponent.submittedData, NoData while null
  passwordStrength,  \* RegistrationFormComponent.passwordStrength
  emailAsync,        \* state of the e-mail uniqueness check: none, pending, unique, taken
  timers,            \* the setTimeout callbacks of emailUniqueValidator still to run
  regOp              \* history: the registration handler that ran last, with what it saw

checkoutVars == <<currentStep, cartForm, shippingForm, paymentForm, confirmationForm,
                  touched, orderData, now, edits, placed, lastOp>>

regVars == <<regForm, regTouched, submitted, submittedData, passwordStrength,
             emailAsync, timers, regOp>>

VARIABLES
  formData,          \* TemplateFormIntro.formData
  tplSubmitted,      \* TemplateFormIntro.submitted
  tplSubmittedData,  \* TemplateFormIntro.submittedData, NoData while null
  tplSubmitError,    \* TemplateFormIntro.submitError, Null while null
  tplShared,         \* the groups of formData whose object submittedData also refers to
  tplOp              \* history: the template-form handler that ran last, with its input

tplVars == <<formData, tplSubmitted, tplSubmittedData, tplSubmitError, tplShared, tplOp>>

VARIABLES
  introForm,          \* ReactiveFormIntro: value of registrationForm
  introTouched,       \* names of its controls, outside the array, whose touched flag is set
  introSubmitted,     \* ReactiveFormIntro.submitted
  introSubmittedData, \* ReactiveFormIntro.submittedData, NoData while null
  introSubmitError,   \* ReactiveFormIntro.submitError, Null while null
  showPassword,       \* ReactiveFormIntro.showPassword
  introOp             \* history: the handler of ReactiveFormIntro that ran last

introVars == <<introForm, introTouched, introSubmitted, introSubmittedData,
               introSubmitError, showPassword, introOp>>

VARIABLES
  surveyForm,          \* SurveyFormComponent: value of surveyForm
  surveySubmitted,     \* SurveyFormComponent.submitted
  surveySubmittedData, \* SurveyFormComponent.submittedData, NoData while null
  surveyOp             \* history: the handler of SurveyFormComponent that ran last

surveyVars == <<surveyForm, surveySubmitted, surveySubmittedData, surveyOp>>

VARIABLES
  todos,             \* DynamicTodoListComponent: the controls of todosArray, with their values
  filterType,        \* DynamicTodoListComponent.filterType
  sortBy,            \* DynamicTodoListComponent.sortBy
  todoOp             \* history: the handler of DynamicTodoListComponent that ran last

todoVars == <<todos, filterType, sortBy, todoOp>>

VARIABLES
  routerUrl,           \* DocumentationComponent: router.url
  navigating,          \* the URL the router was asked for and has not taken yet, or Null
  currentChapter,      \* DocumentationComponent.currentChapter
  currentChapterIndex, \* DocumentationComponent.currentChapterIndex
  sidebarOpen,         \* DocumentationComponent.sidebarOpen
  docOp                \* history: the handler of DocumentationComponent that ran last

docVars == <<routerUrl, navigating, currentChapter, currentChapterIndex, sidebarOpen, docOp>>

vars == <<checkoutVars, regVars, tplVars, introVars, surveyVars, todoVars, docVars>>

\* the variables of the other components, which a handler of one component leaves alone
exceptCheckout == <<regVars, tplVars, introVars, surveyVars, todoVars, docVars>>

exceptRegistration == <<checkoutVars, tplVars, introVars, surveyVars, todoVars, docVars>>

exceptTemplate == <<checkoutVars, regVars, introVars, surveyVars, todoVars, docVars>>

exceptIntro == <<checkoutVars, regVars, tplVars, surveyVars, todoVars, docVars>>

exceptSurvey == <<checkoutVars, regVars, tplVars, introVars, todoVars, docVars>>

exceptTodo == <<checkoutVars, regVars, tplVars, introVars, surveyVars, docVars>>

exceptDoc == <<checkoutVars, regVars, tplVars, introVars, surveyVars, todoVars>>

----------------------------------------------------------------------------
(* Bounds of the model *)

MaxEdits == 3

MaxClock == 1

MaxOrders == 2

\* controls that lose focus one by one, in forms not marked touched as a whole
MaxBlur == 2

----------------------------------------------------------------------------
(* Constants of the component *)

\* null, where a text or a form is expected
Null == "null"

\* orderData = null
NoOrder == [null |-> TRUE]

totalSteps == 4

\* taxRate = 0.2, in thousandths
taxRate == 200

cartItems ==
  << [id |-> 1, name |-> "Cours Angular Avance", price |-> 99990, quantity |-> 1],
     [id |-> 2, name |-> "Guide Formulaires", price |-> 39990, quantity |-> 1] >>

shippingMethods ==
  << [id |-> "standard", price |-> 5990],
     [id |-> "express", price |-> 14990],
     [id |-> "overnight", price |-> 29990] >>

paymentMethods == << [id |-> "card"], [id |-> "paypal"], [id |-> "bank"] >>

----------------------------------------------------------------------------
(* Characters and the regular expressions of the validators *)

Digits == {"0", "1", "2", "3", "4", "5", "6", "7", "8", "9"}

Letters ==
  {"a", "b", "c", "d", "e", "f", "g", "h", "i", "j", "k", "l", "m",
   "n", "o", "p", "q", "r", "s", "t", "u", "v", "w", "x", "y", "z",
   "A", "B", "C", "D", "E", "F", "G", "H", "I", "J", "K", "L", "M",
   "N", "O", "P", "Q", "R", "S", "T", "U", "V", "W", "X", "Y", "Z"}

CharAt(s, i) == SubSeq(s, i, i)

AllIn(s, class) == \A i \in 1..Len(s) : CharAt(s, i) \in class

\* /^\+?[0-9\s\-()]+$/
PhonePattern(s) ==
  LET body == IF Len(s) > 0 /\ CharAt(s, 1) = "+" THEN SubSeq(s, 2, Len(s)) ELSE s
  IN  Len(body) >= 1 /\ AllIn(body, Digits \cup {" ", "-", "(", ")"})

\* a postal code pattern without the lower length limit
PostalCodePattern_AtMost5(s) == Len(s) <= 5 /\ AllIn(s, Digits)

\* /^[0-9]{5}$/
PostalCodePattern(s) == Len(s) = 5 /\ AllIn(s, Digits)

\* /^[0-9]{16}$/
CardNumberPattern(s) == Len(s) = 16 /\ AllIn(s, Digits)

\* /^(0[1-9]|1[0-2])\/[0-9]{2}$/
ExpiryDatePattern(s) ==
  /\ Len(s) = 5
  /\ \/ CharAt(s, 1) = "0" /\ CharAt(s, 2) \in (Digits \ {"0"})
     \/ CharAt(s, 1) = "1" /\ CharAt(s, 2) \in {"0", "1", "2"}
  /\ CharAt(s, 3) = "/"
  /\ CharAt(s, 4) \in Digits
  /\ CharAt(s, 5) \in Digits

\* /^[0-9]{3,4}$/
CvvPattern(s) == Len(s) \in {3, 4} /\ AllIn(s, Digits)

\* Dot-separated, non-empty runs of characters of class
DotRuns(s, class) ==
  /\ Len(s) >= 1
  /\ AllIn(s, class \cup {"."})
  /\ CharAt(s, 1) # "."
  /\ CharAt(s, Len(s)) # "."
  /\ \A i \in 1..(Len(s) - 1) : ~(CharAt(s, i) = "." /\ CharAt(s, i + 1) = ".")

\* The e-mail grammar of Validators.email: local part of dot-separated atoms, at most
\* 64 characters, '@', domain of dot-separated labels of 1..63 characters that
\* begin and end with a letter or digit; 254 characters at most.  (The grave
\* accent, also an atom character, cannot be written in a TLA+ string.)
EmailPattern(s) ==
  LET ats    == {i \in 1..Len(s) : CharAt(s, i) = "@"}
      at     == CHOOSE i \in ats : TRUE
      local  == SubSeq(s, 1, at - 1)
      domain == SubSeq(s, at + 1, Len(s))
      alnum  == Letters \cup Digits
      atom   == alnum \cup {"!", "#", "$", "%", "&", "'", "*", "+", "/", "=",
                            "?", "^", "_", "{", "|", "}", "~", "-"}
      edge(i) == i = 0 \/ i = Len(domain) + 1 \/ CharAt(domain, i) = "."
  IN  /\ Len(s) \in 1..254
      /\ Cardinality(ats) = 1
      /\ Len(local) \in 1..64
      /\ DotRuns(local, atom)
      /\ DotRuns(domain, alnum \cup {"-"})
      /\ \A i \in 1..Len(domain) :
            (CharAt(domain, i) = "-") => (~edge(i - 1) /\ ~edge(i + 1))
      /\ \A i \in 1..Len(domain) :
            (i + 63 <= Len(domain)) => (\E j \in i..(i + 63) : CharAt(domain, j) = ".")

----------------------------------------------------------------------------
(* Validators: TRUE when the control passes *)

\* Validators.required on a text control
Required(v) == v # Null /\ Len(v) # 0

\* Validators.minLength(n): an empty value passes
MinLength(v, n) == v = Null \/ Len(v) = 0 \/ Len(v) >= n

\* Validators.requiredTrue
RequiredTrue(v) == v = TRUE

\* Validators.pattern / Validators.email: an empty value passes
EmptyOr(v, ok) == v = Null \/ Len(v) = 0 \/ ok

\* control.errors of a control with Validators.required and Validators.pattern,
\* ok telling whether the value matches the pattern
PatternErrors(v, ok) ==
  (IF Required(v) THEN {} ELSE {"required"}) \cup (IF EmptyOr(v, ok) THEN {} ELSE {"pattern"})

\* shippingForm.get('postalCode').errors
PostalCodeErrors(v) == PatternErrors(v, PostalCodePattern(v))

----------------------------------------------------------------------------
(* The four forms built by initializeForms *)

FormNames == {"cart", "shipping", "payment", "confirmation"}

InitCartForm == [items |-> cartItems, shippingMethod |-> "standard"]

InitShippingForm ==
  [firstName  |-> "Jean",
   lastName   |-> "Dupont",
   email      |-> "jean.dupont@example.com",
   phone      |-> "+33 6 12 34 56 78",
   address    |-> "123 Rue de Paris",
   city       |-> "Paris",
   postalCode |-> "75001",
   country    |-> "FR"]

InitPaymentForm ==
  [paymentMethod  |-> "card",
   cardName       |-> "Jean Dupont",
   cardNumber     |-> "4111111111111111",
   expiryDate     |-> "12/25",
   cvv            |-> "123",
   billingAddress |-> TRUE]

InitConfirmationForm == [acceptTerms |-> FALSE, acceptPrivacy |-> FALSE]

\* FormGroup.valid: every control passes every one of its validators
CartValid(f) == Required(f.shippingMethod)

ShippingValid(f) ==
  /\ Required(f.firstName) /\ MinLength(f.firstName, 2)
  /\ Required(f.lastName) /\ MinLength(f.lastName, 2)
  /\ Required(f.email) /\ EmptyOr(f.email, EmailPattern(f.email))
  /\ Required(f.phone) /\ EmptyOr(f.phone, PhonePattern(f.phone))
  /\ Required(f.address) /\ MinLength(f.address, 5)
  /\ Required(f.city) /\ MinLength(f.city, 2)
  /\ Required(f.postalCode) /\ EmptyOr(f.postalCode, PostalCodePattern(f.postalCode))
  /\ Required(f.country)

PaymentValid(f) ==
  /\ Required(f.paymentMethod)
  /\ Required(f.cardName) /\ MinLength(f.cardName, 5)
  /\ Required(f.cardNumber) /\ EmptyOr(f.cardNumber, CardNumberPattern(f.cardNumber))
  /\ Required(f.expiryDate) /\ EmptyOr(f.expiryDate, ExpiryDatePattern(f.expiryDate))
  /\ Required(f.cvv) /\ EmptyOr(f.cvv, CvvPattern(f.cvv))

\* a confirmation form that checks the terms flag alone
ConfirmationValid_TermsOnly(f) == RequiredTrue(f.acceptTerms)

ConfirmationValid(f) == RequiredTrue(f.acceptTerms) /\ RequiredTrue(f.acceptPrivacy)

\* the value of a form, by name
FormValue(name) ==
  CASE name = "cart" -> cartForm
    [] name = "shipping" -> shippingForm
    [] name = "payment" -> paymentForm
    [] name = "confirmation" -> confirmationForm

\* form.valid, by name
FormValid(name) ==
  CASE name = "cart" -> CartValid(cartForm)
    [] name = "shipping" -> ShippingValid(shippingForm)
    [] name = "payment" -> PaymentValid(paymentForm)
    [] name = "confirmation" -> ConfirmationValid(confirmationForm)

\* Object.keys(form.controls)
Controls(name) == DOMAIN FormValue(name)

getFormAtStep(step) ==
  CASE step = 1 -> "cart"
    [] step = 2 -> "shipping"
    [] step = 3 -> "payment"
    [] step = 4 -> "confirmation"
    [] OTHER -> Null

getCurrentForm == getFormAtStep(currentStep)

\* marking that flips the flag of every control instead of setting it
MarkTouched_Toggle(t, form) ==
  IF form = Null THEN t
  ELSE [t EXCEPT ![form] = (Controls(form) \ t[form])]

\* the touched flags t after control.markAsTouched() on every control of form
MarkTouched(t, form) ==
  IF form = Null THEN t
  ELSE [t EXCEPT ![form] = t[form] \cup Controls(form)]

\* the touched flags after markFormTouched(form)
markFormTouched(form) == MarkTouched(touched, form)

----------------------------------------------------------------------------
(* Totals *)

\* a reduce that stops after the first item
SumItems_FirstOnly(items) == IF items = <<>> THEN 0 ELSE Head(items).price * Head(items).quantity

RECURSIVE SumItems(_)
\* cartItems.reduce((sum, item) => sum + item.price * item.quantity, 0)
SumItems(items) ==
  IF items = <<>> THEN 0
  ELSE Head(items).price * Head(items).quantity + SumItems(Tail(items))

\* shippingMethods.find(m => m.id === id)?.price || 0
ShippingPrice(id) ==
  LET hits == {i \in 1..Len(shippingMethods) : shippingMethods[i].id = id}
  IN  IF hits = {} THEN 0
      ELSE shippingMethods[CHOOSE i \in hits : \A j \in hits : i <= j].price

\* Number.prototype.toFixed(2) of a non-negative amount in thousandths, as cents:
\* the nearest hundredth, the larger one on a tie
toFixed2(amount) == (amount + 5) \div 10

\* totals whose tax leaves the shipping cost out
getTotals_TaxOnSubtotal ==
  LET subtotal == SumItems(cartItems)
      shipping == ShippingPrice(cartForm.shippingMethod)
      tax == (subtotal * taxRate) \div 1000
      total == subtotal + shipping + tax
  IN  [subtotal |-> toFixed2(subtotal),
       shipping |-> toFixed2(shipping),
       tax      |-> toFixed2(tax),
       total    |-> toFixed2(total)]

getTotals ==
  LET subtotal == SumItems(cartItems)
      shipping == ShippingPrice(cartForm.shippingMethod)
      subtotalWithShipping == subtotal + shipping
      tax == (subtotalWithShipping * taxRate) \div 1000
      total == subtotalWithShipping + tax
  IN  [subtotal |-> toFixed2(subtotal),
       shipping |-> toFixed2(shipping),
       tax      |-> toFixed2(tax),
       total    |-> toFixed2(total)]

\* 'ORD-' + Date.now()
OrderNumber(t) == "ORD-" \o ToString(t)

\* milliseconds in a day
MsPerDay == 86400000

\* new Date().toLocaleDateString('fr-FR'): the calendar day of the clock, as a day count
LocaleDate(t) == t \div MsPerDay

----------------------------------------------------------------------------
(* Part 2: RegistrationFormComponent                                       *)
(*                                                                         *)
(* A checkbox of registrationForm holds Checked or Unchecked, and Null     *)
(* after a reset that names no value for it.                               *)

\* at most this many callbacks of emailUniqueValidator are waiting at a time
MaxTimers == 2

\* submittedData = null
NoData == [null |-> TRUE]

Checked == "true"

Unchecked == "false"

usedEmails == <<"test@example.com", "user@example.com", "admin@example.com">>

Lowercase ==
  {"a", "b", "c", "d", "e", "f", "g", "h", "i", "j", "k", "l", "m",
   "n", "o", "p", "q", "r", "s", "t", "u", "v", "w", "x", "y", "z"}

Uppercase == Letters \ Lowercase

\* [0-9!@#$%^&*(),.?":{}|<>]
DigitOrSpecial ==
  Digits \cup {"!", "@", "#", "$", "%", "^", "&", "*", "(", ")", ",", ".", "?",
               "\"", ":", "{", "}", "|", "<", ">"}

\* regex.test(s) for a regex that is one character class
HasCharIn(s, class) == \E i \in 1..Len(s) : CharAt(s, i) \in class

\* !value for a text value: null and the empty string are falsy
Falsy(v) == v = Null \/ Len(v) = 0

Min(a, b) == IF a <= b THEN a ELSE b

calculatePasswordStrength(password) ==
  IF Falsy(password) THEN 0
  ELSE LET strength ==
             (IF Len(password) >= 8 THEN 1 ELSE 0)
           + (IF Len(password) >= 12 THEN 1 ELSE 0)
           + (IF HasCharIn(password, Lowercase) THEN 1 ELSE 0)
           + (IF HasCharIn(password, Uppercase) THEN 1 ELSE 0)
           + (IF HasCharIn(password, DigitOrSpecial) THEN 1 ELSE 0)
       IN  Min(strength, 5)

\* the number written by the decimal digits of s
DigitValue(c) == CHOOSE n \in 0..9 : ToString(n) = c

RECURSIVE ParseInt(_)
ParseInt(s) ==
  IF Len(s) = 0 THEN 0
  ELSE 10 * ParseInt(SubSeq(s, 1, Len(s) - 1)) + DigitValue(CharAt(s, Len(s)))

\* new Date(value) for the value "YYYY-MM-DD" of a date input, read back with
\* getFullYear, getMonth (January is 0) and getDate in a time zone at UTC
ParseDate(s) ==
  [year  |-> ParseInt(SubSeq(s, 1, 4)),
   month |-> ParseInt(SubSeq(s, 6, 7)) - 1,
   date  |-> ParseInt(SubSeq(s, 9, 10))]

\* new Date(): the day the form is used
Today == [year |-> 2026, month |-> 10, date |-> 4]

\* ageValidator: TRUE when control.value is empty or the age is 18 or more
ageValidator(value) ==
  IF Falsy(value) THEN TRUE
  ELSE LET birthDate == ParseDate(value)
           monthDiff == Today.month - birthDate.month
           age == IF monthDiff < 0 \/ (monthDiff = 0 /\ Today.date < birthDate.date)
                  THEN Today.year - birthDate.year - 1
                  ELSE Today.year - birthDate.year
       IN  age >= 18

\* Validators.maxLength(n): an empty value passes
MaxLength(v, n) == v = Null \/ Len(v) <= n

\* passwordMatchValidator: TRUE when the group has no passwordMismatch error
passwordMatchValidator(form) == form.password = form.confirmPassword

\* the synchronous validators of the email control: required, email
EmailSyncValid(v) == Required(v) /\ EmptyOr(v, EmailPattern(v))

\* usedEmails.indexOf(email) === -1
NotUsed(email) == \A i \in 1..Len(usedEmails) : usedEmails[i] # email

\* the outcome of the callback of emailUniqueValidator for the value email
EmailVerdict(email) == IF Falsy(email) \/ NotUsed(email) THEN "unique" ELSE "taken"

RegControls ==
  {"username", "email", "password", "confirmPassword", "birthDate", "gender",
   "acceptTerms", "newsletter"}

InitRegForm ==
  [username        |-> "",
   email           |-> "",
   password        |-> "",
   confirmPassword |-> "",
   birthDate       |-> "",
   gender          |-> "",
   acceptTerms     |-> Unchecked,
   newsletter      |-> Checked]

\* registrationForm.reset({ newsletter: true })
ResetRegForm == [k \in RegControls |-> IF k = "newsletter" THEN Checked ELSE Null]

\* registrationForm.valid for the value form and the state async of the e-mail check
RegValidOf(form, async) ==
  /\ Required(form.username) /\ MinLength(form.username, 3) /\ MaxLength(form.username, 20)
  /\ EmailSyncValid(form.email) /\ async = "unique"
  /\ Required(form.password) /\ MinLength(form.password, 8)
  /\ Required(form.confirmPassword)
  /\ Required(form.birthDate) /\ ageValidator(form.birthDate)
  /\ Required(form.gender)
  /\ form.acceptTerms = Checked
  /\ passwordMatchValidator(form)

RegValid == RegValidOf(regForm, emailAsync)

InitRegistration ==
  /\ regForm = InitRegForm
  /\ regTouched = {}
  /\ submitted = FALSE
  /\ submittedData = NoData
  /\ passwordStrength = 0
  /\ emailAsync = "none"
  /\ timers = <<>>
  /\ regOp = [name |-> "ngOnInit"]

----------------------------------------------------------------------------
(* Part 3: TemplateFormIntro                                               *)
(*                                                                         *)
(* The validators of the form are attributes of its HTML template; the     *)
(* component reads their outcome as form.valid, an input of onSubmit.      *)

\* the value given to formData at construction, by resetForm and by clearForm
EmptyFormData ==
  [personalInfo |-> [firstName |-> "", lastName |-> "", birthDate |-> ""],
   contactInfo  |-> [email |-> "", phone |-> "", website |-> ""],
   passwords    |-> [password |-> "", confirmPassword |-> ""],
   acceptTerms  |-> FALSE]

\* the value given to formData by prefillForm
PrefilledFormData ==
  [personalInfo |-> [firstName |-> "Marie", lastName |-> "Dupont", birthDate |-> "1992-03-15"],
   contactInfo  |-> [email |-> "marie.dupont@example.com", phone |-> "+33 6 98 76 54 32",
                     website |-> "https://mariedupont.com"],
   passwords    |-> [password |-> "SecurePass456!", confirmPassword |-> "SecurePass456!"],
   acceptTerms  |-> TRUE]

FormDataGroups == {"personalInfo", "contactInfo", "passwords"}

\* JSON.parse(JSON.stringify(data)): an object with the groups and fields of
\* data, none of them shared with it
DeepCopy(data) ==
  [personalInfo |-> [f \in DOMAIN data.personalInfo |-> data.personalInfo[f]],
   contactInfo  |-> [f \in DOMAIN data.contactInfo |-> data.contactInfo[f]],
   passwords    |-> [f \in DOMAIN data.passwords |-> data.passwords[f]],
   acceptTerms  |-> data.acceptTerms]

passwordsMatch == formData.passwords.password = formData.passwords.confirmPassword

MismatchMessage == "Les mots de passe ne correspondent pas"

InvalidMessage == "Veuillez corriger les erreurs du formulaire"

InitTemplate ==
  /\ formData = EmptyFormData
  /\ tplSubmitted = FALSE
  /\ tplSubmittedData = NoData
  /\ tplSubmitError = Null
  /\ tplShared = {}
  /\ tplOp = [name |-> "constructor"]

----------------------------------------------------------------------------
(* Part 4: ReactiveFormIntro                                               *)
(*                                                                         *)
(* The checkbox acceptTerms holds Checked or Unchecked, and Null after     *)
(* reset; a control of additionalEmails is a record of its value and its   *)
(* touched flag.                                                           *)

\* at most this many controls in additionalEmails
MaxEmails == 2

WordChars == Letters \cup Digits \cup {"_"}

\* /^(https?:\/\/)?([\da-z\.-]+)\.([a-z\.]{2,6})([\/\w \.-]*)*\/?$/ without the
\* optional scheme: a host, a dot, a suffix of 2 to 6 characters, a path
HostPattern(s) ==
  \E i \in 2..Len(s) : \E j \in (i + 2)..Min(i + 6, Len(s)) :
     /\ AllIn(SubSeq(s, 1, i - 1), Digits \cup Lowercase \cup {".", "-"})
     /\ CharAt(s, i) = "."
     /\ AllIn(SubSeq(s, i + 1, j), Lowercase \cup {"."})
     /\ AllIn(SubSeq(s, j + 1, Len(s)), WordChars \cup {"/", " ", ".", "-"})

StartsWith(s, prefix) == Len(s) >= Len(prefix) /\ SubSeq(s, 1, Len(prefix)) = prefix

WebsitePattern(s) ==
  \/ HostPattern(s)
  \/ \E scheme \in {"http://", "https://"} :
        StartsWith(s, scheme) /\ HostPattern(SubSeq(s, Len(scheme) + 1, Len(s)))

InitIntroForm ==
  [personalInfo     |-> [firstName |-> "", lastName |-> "", birthDate |-> ""],
   contactInfo      |-> [email |-> "", phone |-> "", website |-> ""],
   passwords        |-> [password |-> "", confirmPassword |-> ""],
   additionalEmails |-> <<>>,
   acceptTerms      |-> Unchecked]

IntroGroups == {"personalInfo", "contactInfo", "passwords"}

\* the controls of registrationForm other than those of additionalEmails
IntroControls ==
  {"personalInfo", "firstName", "lastName", "birthDate",
   "contactInfo", "email", "phone", "website",
   "passwords", "password", "confirmPassword",
   "additionalEmails", "acceptTerms"}

\* registrationForm.reset(): every control null, the controls of the array kept
ResetIntroForm(form) ==
  [personalInfo     |-> [firstName |-> Null, lastName |-> Null, birthDate |-> Null],
   contactInfo      |-> [email |-> Null, phone |-> Null, website |-> Null],
   passwords        |-> [password |-> Null, confirmPassword |-> Null],
   additionalEmails |-> [i \in 1..Len(form.additionalEmails) |-> [value |-> Null, touched |-> FALSE]],
   acceptTerms      |-> Null]

\* the object given to patchValue by prefillForm
PrefillPatch ==
  [personalInfo |-> [firstName |-> "Jean", lastName |-> "Dupont", birthDate |-> "1990-01-15"],
   contactInfo  |-> [email |-> "jean.dupont@example.com", phone |-> "+33 6 12 34 56 78",
                     website |-> "https://jeandupont.com"],
   passwords    |-> [password |-> "SecurePass123!", confirmPassword |-> "SecurePass123!"],
   acceptTerms  |-> Checked]

\* patchValue: the controls named by the patch take its values, the others keep theirs
PatchValue(form, patch) ==
  [k \in DOMAIN form |-> IF k \in DOMAIN patch THEN patch[k] ELSE form[k]]

\* registrationForm.valid
IntroValid(form) ==
  /\ Required(form.personalInfo.firstName) /\ MinLength(form.personalInfo.firstName, 2)
  /\ Required(form.personalInfo.lastName) /\ MinLength(form.personalInfo.lastName, 2)
  /\ Required(form.personalInfo.birthDate)
  /\ Required(form.contactInfo.email)
  /\ EmptyOr(form.contactInfo.email, EmailPattern(form.contactInfo.email))
  /\ Required(form.contactInfo.phone)
  /\ EmptyOr(form.contactInfo.phone, PhonePattern(form.contactInfo.phone))
  /\ EmptyOr(form.contactInfo.website, WebsitePattern(form.contactInfo.website))
  /\ Required(form.passwords.password) /\ MinLength(form.passwords.password, 8)
  /\ Required(form.passwords.confirmPassword)
  /\ form.passwords.password = form.passwords.confirmPassword
  /\ \A i \in 1..Len(form.additionalEmails) :
        LET v == form.additionalEmails[i].value
        IN  Required(v) /\ EmptyOr(v, EmailPattern(v))
  /\ form.acceptTerms = Checked

\* { ...registrationForm.value }: the values of the controls
IntroValue(form) ==
  [form EXCEPT !.additionalEmails =
     [i \in 1..Len(form.additionalEmails) |-> form.additionalEmails[i].value]]

InitIntro ==
  /\ introForm = InitIntroForm
  /\ introTouched = {}
  /\ introSubmitted = FALSE
  /\ introSubmittedData = NoData
  /\ introSubmitError = Null
  /\ showPassword = FALSE
  /\ introOp = "ngOnInit"

----------------------------------------------------------------------------
(* Part 5: SurveyFormComponent                                             *)
(*                                                                         *)
(* The value of an option is written as text ('5' for the number 5); a     *)
(* checkbox holds Checked or Unchecked, and Null after reset.              *)

questions ==
  << [id |-> "satisfaction", type |-> "radio", required |-> TRUE, validators |-> {},
      options |-> <<"5", "4", "3", "2", "1">>],
     [id |-> "features", type |-> "checkbox", required |-> TRUE, validators |-> {},
      options |-> <<"ui", "performance", "docs", "support", "price">>],
     [id |-> "recommendation", type |-> "radio", required |-> TRUE, validators |-> {},
      options |-> <<"very-likely", "likely", "maybe", "unlikely", "very-unlikely">>],
     [id |-> "improvements", type |-> "textarea", required |-> FALSE, validators |-> {},
      options |-> <<>>],
     [id |-> "contact", type |-> "text", required |-> FALSE, validators |-> {"email"},
      options |-> <<>>] >>

QuestionIds == {questions[i].id : i \in 1..Len(questions)}

Question(id) == questions[CHOOSE i \in 1..Len(questions) : questions[i].id = id]

OptionsOf(id) == {Question(id).options[i] : i \in 1..Len(Question(id).options)}

\* buildForm: the validators given to the control of the question q; the group
\* of a checkbox question is built without any
ControlValidators(q) ==
  IF q.type = "checkbox" THEN {}
  ELSE (IF q.required THEN {"required"} ELSE {}) \cup q.validators

\* buildForm: the value of the control of the question q
InitialControl(q) ==
  IF q.type = "checkbox"
  THEN [o \in {q.options[i] : i \in 1..Len(q.options)} |-> Unchecked]
  ELSE ""

InitSurveyForm == [id \in QuestionIds |-> InitialControl(Question(id))]

\* surveyForm.reset()
ResetSurveyForm ==
  [id \in QuestionIds |->
     IF Question(id).type = "checkbox" THEN [o \in OptionsOf(id) |-> Null] ELSE Null]

\* the control of the question q passes its validators
ControlValid(q, v) ==
  /\ ("required" \in ControlValidators(q)) => Required(v)
  /\ ("email" \in ControlValidators(q)) => EmptyOr(v, EmailPattern(v))

\* surveyForm.valid
SurveyValid(form) == \A i \in 1..Len(questions) : ControlValid(questions[i], form[questions[i].id])

InitSurvey ==
  /\ surveyForm = InitSurveyForm
  /\ surveySubmitted = FALSE
  /\ surveySubmittedData = NoData
  /\ surveyOp = "ngOnInit"

----------------------------------------------------------------------------
(* Part 6: DynamicTodoListComponent *)

\* at most this many todos in the array
MaxTodos == 3

\* new Date().toISOString().split('T')[0]
IsoDate(d) ==
  LET two(n) == IF n < 10 THEN "0" \o ToString(n) ELSE ToString(n)
  IN  ToString(d.year) \o "-" \o two(d.month + 1) \o "-" \o two(d.date)

\* createTodoControl(title, priority, completed) on the day d
createTodoControl(title, priority, completed, d) ==
  [title       |-> title,
   description |-> "",
   priority    |-> priority,
   completed   |-> completed,
   dueDate     |-> "",
   createdAt   |-> IsoDate(d)]

InitTodos ==
  << createTodoControl("Apprendre Angular Formulaires", "high", FALSE, Today),
     createTodoControl("Creer un formulaire reactif", "high", TRUE, Today),
     createTodoControl("Implementer la validation", "medium", TRUE, Today) >>

\* the number of elements of seq that satisfy Test
Count(seq, Test(_)) == Cardinality({i \in 1..Len(seq) : Test(seq[i])})

IsCompleted(t) == t.completed

IsPending(t) == ~t.completed

\* urgent counted whatever the completion of the todo
IsUrgent_AnyHigh(t) == t.priority = "high"

IsUrgent(t) == t.priority = "high" /\ ~t.completed

getStatsOf(list) ==
  [total     |-> Len(list),
   completed |-> Count(list, IsCompleted),
   pending   |-> Count(list, IsPending),
   urgent    |-> Count(list, IsUrgent)]

getStats == getStatsOf(todos)

\* priorityOrder
priorityOrder(p) == CASE p = "high" -> 0 [] p = "medium" -> 1 [] p = "low" -> 2

\* new Date(createdAt).getTime(), in days
DayNumber(s) ==
  LET d == ParseDate(s) IN (d.year * 12 + d.month) * 31 + d.date

\* the comparator of getFilteredTodos: negative when a sorts before b
Compare(a, b, by) ==
  IF by = "priority"
  THEN priorityOrder(a.priority) - priorityOrder(b.priority)
  ELSE DayNumber(b.createdAt) - DayNumber(a.createdAt)

\* x put into the sorted sequence seq behind every element it does not sort before
InsertSorted(x, seq, by) ==
  LET before == {j \in 1..Len(seq) : Compare(x, seq[j], by) < 0}
      pos    == IF before = {} THEN Len(seq) + 1
                ELSE CHOOSE j \in before : \A k \in before : j <= k
  IN  SubSeq(seq, 1, pos - 1) \o <<x>> \o SubSeq(seq, pos, Len(seq))

\* Array.prototype.sort with the comparator: a stable sort
RECURSIVE Sort(_, _)
Sort(seq, by) ==
  IF Len(seq) = 0 THEN <<>>
  ELSE InsertSorted(seq[Len(seq)], Sort(SubSeq(seq, 1, Len(seq) - 1), by), by)

Filter(seq, type) ==
  SelectSeq(seq, LAMBDA t : CASE type = "completed" -> t.completed
                              [] type = "pending" -> ~t.completed
                              [] type = "urgent" -> t.priority = "high" /\ ~t.completed
                              [] OTHER -> TRUE)

InitTodo ==
  /\ todos = InitTodos
  /\ filterType = "all"
  /\ sortBy = "date"
  /\ todoOp = [name |-> "ngOnInit"]

----------------------------------------------------------------------------
(* Part 7: DocumentationComponent                                          *)
(*                                                                         *)
(* currentChapterIndex counts from 0 as in the source; chapters, a         *)
(* sequence, is indexed from 1.  Titles are written without accents.       *)

chapters ==
  << [id |-> "index", title |-> "Table des Matieres", file |-> "index"],
     [id |-> "core-concepts", title |-> "Concepts Fondamentaux", file |-> "01-core-concepts"],
     [id |-> "form-classes", title |-> "Classes de Formulaires", file |-> "02-form-classes"],
     [id |-> "directives", title |-> "Directives", file |-> "03-directives"],
     [id |-> "state-properties", title |-> "Etat et Proprietes", file |-> "04-state-properties"],
     [id |-> "validation", title |-> "Validation", file |-> "05-validation"],
     [id |-> "reactive-programming", title |-> "Programmation Reactive",
      file |-> "06-reactive-programming"],
     [id |-> "modules", title |-> "Modules", file |-> "07-modules"],
     [id |-> "patterns", title |-> "Patterns et Bonnes Pratiques", file |-> "08-patterns"] >>

\* the positions of the character c in s
Positions(s, c) == {i \in 1..Len(s) : CharAt(s, i) = c}

Least(S) == CHOOSE i \in S : \A j \in S : i <= j

Greatest(S) == CHOOSE i \in S : \A j \in S : i >= j

\* s.split(c)[0]
SplitFirst(s, c) ==
  IF Positions(s, c) = {} THEN s ELSE SubSeq(s, 1, Least(Positions(s, c)) - 1)

\* s.split(c).pop()
SplitPop(s, c) ==
  IF Positions(s, c) = {} THEN s ELSE SubSeq(s, Greatest(Positions(s, c)) + 1, Len(s))

\* urlPath.split('/').pop() || 'index'
ChapterId(url) ==
  LET last == SplitPop(SplitFirst(url, "?"), "/")
  IN  IF Len(last) = 0 THEN "index" ELSE last

\* this.chapters.findIndex(c => c.id === chapterId)
FindIndex(chapterId) ==
  LET found == {i \in 1..Len(chapters) : chapters[i].id = chapterId}
  IN  IF found = {} THEN -1 ELSE Least(found) - 1

\* updateCurrentChapter that falls back to the first chapter
updateCurrentChapter_Fallback(url, chapter, index) ==
  IF FindIndex(ChapterId(url)) # -1
  THEN [chapter |-> chapters[FindIndex(ChapterId(url)) + 1], index |-> FindIndex(ChapterId(url))]
  ELSE [chapter |-> chapters[1], index |-> 0]

\* updateCurrentChapter with router.url = url: the new currentChapter and
\* currentChapterIndex
updateCurrentChapter(url, chapter, index) ==
  IF FindIndex(ChapterId(url)) # -1
  THEN [chapter |-> chapters[FindIndex(ChapterId(url)) + 1], index |-> FindIndex(ChapterId(url))]
  ELSE [chapter |-> chapter, index |-> index]

\* the router commands ['/documentation', id] as a URL
ChapterUrl(id) == "/documentation/" \o id

\* the URLs the router comes to hold besides those of the chapters
OtherUrls ==
  {"/documentation/", "/documentation/validation?tab=2", "/documentation/validation#sync",
   "/documentation/modules;v=1"}

DocUrls == {ChapterUrl(chapters[i].id) : i \in 1..Len(chapters)} \cup OtherUrls

InitDoc ==
  /\ routerUrl = "/documentation/index"
  /\ navigating = Null
  /\ currentChapter = updateCurrentChapter(routerUrl, chapters[1], 0).chapter
  /\ currentChapterIndex = updateCurrentChapter(routerUrl, chapters[1], 0).index
  /\ sidebarOpen = TRUE
  /\ docOp = [name |-> "ngOnInit"]

\* the components other than the checkout wizard, as constructed
InitExceptCheckout ==
  /\ InitRegistration
  /\ InitTemplate
  /\ InitIntro
  /\ InitSurvey
  /\ InitTodo
  /\ InitDoc

----------------------------------------------------------------------------
(* Operations *)

InitCheckout ==
  /\ currentStep = 1
  /\ cartForm = InitCartForm
  /\ shippingForm = InitShippingForm
  /\ paymentForm = InitPaymentForm
  /\ confirmationForm = InitConfirmationForm
  /\ touched = [f \in FormNames |-> {}]
  /\ orderData = NoOrder
  /\ now = 0
  /\ edits = 0
  /\ placed = <<>>
  /\ lastOp = "ngOnInit"

Init == InitCheckout /\ InitExceptCheckout

\* nextStep without the upper limit on currentStep
nextStep_NoUpperBound ==
  /\ lastOp' = "nextStep"
  /\ IF getCurrentForm # Null /\ FormValid(getCurrentForm)
     THEN currentStep' = currentStep + 1 /\ UNCHANGED touched
     ELSE touched' = markFormTouched(getCurrentForm) /\ UNCHANGED currentStep
  /\ UNCHANGED <<cartForm, shippingForm, paymentForm, confirmationForm,
                 orderData, now, edits, placed>>
  /\ UNCHANGED exceptCheckout

\* nextStep that does not consult the validity of the current form
nextStep_NoValidation ==
  /\ lastOp' = "nextStep"
  /\ currentStep' = IF currentStep < totalSteps THEN currentStep + 1 ELSE currentStep
  /\ UNCHANGED <<cartForm, shippingForm, paymentForm, confirmationForm,
                 touched, orderData, now, edits, placed>>
  /\ UNCHANGED exceptCheckout

\* nextStep that jumps to the last step
nextStep_Skip ==
  /\ lastOp' = "nextStep"
  /\ IF getCurrentForm # Null /\ FormValid(getCurrentForm)
     THEN currentStep' = totalSteps /\ UNCHANGED touched
     ELSE touched' = markFormTouched(getCurrentForm) /\ UNCHANGED currentStep
  /\ UNCHANGED <<cartForm, shippingForm, paymentForm, confirmationForm,
                 orderData, now, edits, placed>>
  /\ UNCHANGED exceptCheckout

\* nextStep that marks the form touched whenever it does not advance
nextStep_TouchUnlessAdvanced ==
  /\ lastOp' = "nextStep"
  /\ IF getCurrentForm # Null /\ FormValid(getCurrentForm) /\ currentStep < totalSteps
     THEN currentStep' = currentStep + 1 /\ UNCHANGED touched
     ELSE touched' = markFormTouched(getCurrentForm) /\ UNCHANGED currentStep
  /\ UNCHANGED <<cartForm, shippingForm, paymentForm, confirmationForm,
                 orderData, now, edits, placed>>
  /\ UNCHANGED exceptCheckout

nextStep ==
  /\ lastOp' = "nextStep"
  /\ IF getCurrentForm # Null /\ FormValid(getCurrentForm)
     THEN /\ currentStep' = IF currentStep < totalSteps THEN currentStep + 1
                            ELSE currentStep
          /\ UNCHANGED touched
     ELSE /\ touched' = markFormTouched(getCurrentForm)
          /\ UNCHANGED currentStep
  /\ UNCHANGED <<cartForm, shippingForm, paymentForm, confirmationForm,
                 orderData, now, edits, placed>>
  /\ UNCHANGED exceptCheckout

\* previousStep that goes back only from a valid step
previousStep_Validated ==
  /\ lastOp' = "previousStep"
  /\ currentStep' = IF currentStep > 1 /\ FormValid(getCurrentForm)
                    THEN currentStep - 1 ELSE currentStep
  /\ UNCHANGED <<cartForm, shippingForm, paymentForm, confirmationForm,
                 touched, orderData, now, edits, placed>>
  /\ UNCHANGED exceptCheckout

previousStep ==
  /\ lastOp' = "previousStep"
  /\ currentStep' = IF currentStep > 1 THEN currentStep - 1 ELSE currentStep
  /\ UNCHANGED <<cartForm, shippingForm, paymentForm, confirmationForm,
                 touched, orderData, now, edits, placed>>
  /\ UNCHANGED exceptCheckout

placeOrder ==
  /\ Len(placed) < MaxOrders
  /\ lastOp' = "placeOrder"
  /\ IF ConfirmationValid(confirmationForm)
     THEN /\ orderData' =
               [cart        |-> cartForm,
                shipping    |-> shippingForm,
                payment     |-> [method   |-> paymentForm.paymentMethod,
                                 cardName |-> paymentForm.cardName],
                totals      |-> getTotals,
                orderNumber |-> OrderNumber(now),
                date        |-> LocaleDate(now)]
          /\ placed' = Append(placed, OrderNumber(now))
     ELSE UNCHANGED <<orderData, placed>>
  /\ UNCHANGED <<currentStep, cartForm, shippingForm, paymentForm,
                 confirmationForm, touched, now, edits>>
  /\ UNCHANGED exceptCheckout

\* the values a user enters into the controls; a control without samples keeps the
\* value initializeForms gave it
CartSamples == [shippingMethod |-> {"standard", "express", "overnight", "", "pickup"}]

ShippingSamples ==
  [firstName |-> {"Jean", "J"}, postalCode |-> {"75001", "7500"}, country |-> {"FR", ""}]

PaymentSamples ==
  [paymentMethod |-> {"card", "paypal", "bank"},
   cardNumber    |-> {"4111111111111111", ""},
   expiryDate    |-> {"12/25", "13/25"},
   cvv           |-> {"123", "12"}]

ConfirmationSamples == [acceptTerms |-> BOOLEAN, acceptPrivacy |-> BOOLEAN]

\* a control of cartForm receives a new value
setCartValue ==
  /\ edits < MaxEdits
  /\ \E k \in DOMAIN CartSamples : \E v \in CartSamples[k] :
        /\ cartForm[k] # v
        /\ cartForm' = [cartForm EXCEPT ![k] = v]
  /\ edits' = edits + 1
  /\ lastOp' = "setValue"
  /\ UNCHANGED <<currentStep, shippingForm, paymentForm, confirmationForm,
                 touched, orderData, now, placed>>
  /\ UNCHANGED exceptCheckout

setShippingValue ==
  /\ edits < MaxEdits
  /\ \E k \in DOMAIN ShippingSamples : \E v \in ShippingSamples[k] :
        /\ shippingForm[k] # v
        /\ shippingForm' = [shippingForm EXCEPT ![k] = v]
  /\ edits' = edits + 1
  /\ lastOp' = "setValue"
  /\ UNCHANGED <<currentStep, cartForm, paymentForm, confirmationForm,
                 touched, orderData, now, placed>>
  /\ UNCHANGED exceptCheckout

setPaymentValue ==
  /\ edits < MaxEdits
  /\ \E k \in DOMAIN PaymentSamples : \E v \in PaymentSamples[k] :
        /\ paymentForm[k] # v
        /\ paymentForm' = [paymentForm EXCEPT ![k] = v]
  /\ edits' = edits + 1
  /\ lastOp' = "setValue"
  /\ UNCHANGED <<currentStep, cartForm, shippingForm, confirmationForm,
                 touched, orderData, now, placed>>
  /\ UNCHANGED exceptCheckout

setConfirmationValue ==
  /\ edits < MaxEdits
  /\ \E k \in DOMAIN ConfirmationSamples : \E v \in ConfirmationSamples[k] :
        /\ confirmationForm[k] # v
        /\ confirmationForm' = [confirmationForm EXCEPT ![k] = v]
  /\ edits' = edits + 1
  /\ lastOp' = "setValue"
  /\ UNCHANGED <<currentStep, cartForm, shippingForm, paymentForm,
                 touched, orderData, now, placed>>
  /\ UNCHANGED exceptCheckout

\* the millisecond clock advances between two handlers
Tick ==
  /\ now < MaxClock
  /\ now' = now + 1
  /\ lastOp' = "tick"
  /\ UNCHANGED <<currentStep, cartForm, shippingForm, paymentForm, confirmationForm,
                 touched, orderData, edits, placed>>
  /\ UNCHANGED exceptCheckout

\* the number of touched controls of a form that is not touched as a whole
Blurred(f) == IF touched[f] = Controls(f) THEN 0 ELSE Cardinality(touched[f])

\* a control loses focus: the framework sets its touched flag
markAsTouched ==
  /\ \E f \in FormNames : \E k \in Controls(f) :
        /\ k \notin touched[f]
        /\ Blurred("cart") + Blurred("shipping") + Blurred("payment")
             + Blurred("confirmation") < MaxBlur
        /\ touched' = [touched EXCEPT ![f] = touched[f] \cup {k}]
  /\ lastOp' = "blur"
  /\ UNCHANGED <<currentStep, cartForm, shippingForm, paymentForm, confirmationForm,
                 orderData, now, edits, placed>>
  /\ UNCHANGED exceptCheckout

\* markFormTouched(form) called on one of the forms, or on null
callMarkFormTouched ==
  /\ \E f \in FormNames \cup {Null} :
        /\ touched' = markFormTouched(f)
        /\ lastOp' = "markFormTouched:" \o f
  /\ UNCHANGED <<currentStep, cartForm, shippingForm, paymentForm, confirmationForm,
                 orderData, now, edits, placed>>
  /\ UNCHANGED exceptCheckout

Next ==
  \/ nextStep
  \/ previousStep
  \/ placeOrder
  \/ setCartValue
  \/ setShippingValue
  \/ setPaymentValue
  \/ setConfirmationValue
  \/ Tick

Spec == Init /\ [][Next]_vars

\* The shipping and the payment step on their own: the wizard stands on the step,
\* its form filled with any combination of the values below.
ShippingCases ==
  [firstName  : {"Jean", "J", ""},
   lastName   : {"Dupont", "D"},
   email      : {"jean.dupont@example.com", "jean.dupont", "jean@@example.com"},
   phone      : {"+33 6 12 34 56 78", "abc"},
   address    : {"123 Rue de Paris", "123"},
   city       : {"Paris", "P"},
   postalCode : {"75001", "7500", "7500a", "750011"},
   country    : {"FR", ""}]

PaymentCases ==
  [paymentMethod  : {"card", "paypal", "bank", "crypto", ""},
   cardName       : {"Jean Dupont", "Jean", ""},
   cardNumber     : {"4111111111111111", "411111111111111", "411111111111111a", ""},
   expiryDate     : {"12/25", "13/25", "00/25", "1/25"},
   cvv            : {"123", "1234", "12", "12345"},
   billingAddress : BOOLEAN]

\* the number of controls of the form f that differ from the form g
Differing(f, g) == Cardinality({k \in DOMAIN f : f[k] # g[k]})

InitShipping ==
  /\ currentStep = 2
  /\ cartForm = InitCartForm
  /\ shippingForm \in ShippingCases
  /\ paymentForm = InitPaymentForm
  /\ confirmationForm = InitConfirmationForm
  /\ touched = [f \in FormNames |-> {}]
  /\ orderData = NoOrder
  /\ now = 0
  /\ edits = Differing(shippingForm, InitShippingForm)
  /\ placed = <<>>
  /\ lastOp = "setValue"
  /\ InitExceptCheckout

InitPayment ==
  /\ currentStep = 3
  /\ cartForm = InitCartForm
  /\ shippingForm = InitShippingForm
  /\ paymentForm \in PaymentCases
  /\ confirmationForm = InitConfirmationForm
  /\ touched = [f \in FormNames |-> {}]
  /\ orderData = NoOrder
  /\ now = 0
  /\ edits = Differing(paymentForm, InitPaymentForm)
  /\ placed = <<>>
  /\ lastOp = "setValue"
  /\ InitExceptCheckout

NextNavigation ==
  \/ nextStep
  \/ previousStep

SpecShipping == InitShipping /\ [][NextNavigation]_vars

SpecPayment == InitPayment /\ [][NextNavigation]_vars

\* the wizard with its touched flags set control by control and form by form
NextTouched ==
  \/ nextStep
  \/ previousStep
  \/ markAsTouched
  \/ callMarkFormTouched

SpecTouched == Init /\ [][NextTouched]_vars

----------------------------------------------------------------------------
(* Operations of RegistrationFormComponent *)

\* the subscriptions to the results of earlier e-mail checks are cancelled
CancelAll(ts) == [i \in 1..Len(ts) |-> [ts[i] EXCEPT !.live = FALSE]]

\* a password subscription that does not react to edits
StrengthAfter_Unsubscribed(k, v) == passwordStrength

\* passwordStrength after the control k took the value v: the subscription to
\* valueChanges of the password control
StrengthAfter(k, v) == IF k = "password" THEN calculatePasswordStrength(v) ELSE passwordStrength

\* the user gives the control k the value v; an e-mail that passes the
\* synchronous validators starts emailUniqueValidator, whose callback waits
regSetValue(k, v) ==
  /\ regForm[k] # v
  /\ regForm' = [regForm EXCEPT ![k] = v]
  /\ passwordStrength' = StrengthAfter(k, v)
  /\ IF k = "email"
     THEN IF EmailSyncValid(v)
          THEN /\ Len(timers) < MaxTimers
               /\ timers' = Append(CancelAll(timers), [requested |-> v, live |-> TRUE])
               /\ emailAsync' = "pending"
          ELSE /\ timers' = CancelAll(timers)
               /\ emailAsync' = "none"
     ELSE UNCHANGED <<timers, emailAsync>>
  /\ regOp' = [name |-> "setValue"]
  /\ UNCHANGED <<regTouched, submitted, submittedData>>
  /\ UNCHANGED exceptRegistration

\* a callback that answers for the value its request was made with
TimerEmail_AtRequest(t) == t.requested

\* const email = control.value, read when the callback runs
TimerEmail(t) == regForm.email

\* the oldest waiting callback of emailUniqueValidator runs, 500 ms after its
\* request; its result reaches the control unless the subscription was cancelled
emailTimer ==
  /\ Len(timers) > 0
  /\ LET t       == Head(timers)
         email   == TimerEmail(t)
         verdict == EmailVerdict(email)
     IN  /\ timers' = Tail(timers)
         /\ emailAsync' = IF t.live THEN verdict ELSE emailAsync
         /\ regOp' = [name |-> "emailTimer", requested |-> t.requested,
                      value |-> regForm.email, verdict |-> verdict, live |-> t.live]
  /\ UNCHANGED <<regForm, regTouched, submitted, submittedData, passwordStrength>>
  /\ UNCHANGED exceptRegistration

\* onSubmit that records the value of the form whatever its validity
onSubmit_Unchecked ==
  /\ submitted' = TRUE
  /\ regTouched' = RegControls
  /\ submittedData' = regForm
  /\ regOp' = [name |-> "onSubmit"]
  /\ UNCHANGED <<regForm, passwordStrength, emailAsync, timers>>
  /\ UNCHANGED exceptRegistration

onSubmit ==
  /\ submitted' = TRUE
  /\ regTouched' = RegControls
  /\ IF RegValid THEN submittedData' = regForm ELSE UNCHANGED submittedData
  /\ regOp' = [name |-> "onSubmit"]
  /\ UNCHANGED <<regForm, passwordStrength, emailAsync, timers>>
  /\ UNCHANGED exceptRegistration

\* resetForm that keeps what was submitted
resetForm_KeepData ==
  /\ regForm' = ResetRegForm
  /\ regTouched' = {}
  /\ timers' = CancelAll(timers)
  /\ emailAsync' = "none"
  /\ submitted' = FALSE
  /\ UNCHANGED submittedData
  /\ passwordStrength' = 0
  /\ regOp' = [name |-> "resetForm"]
  /\ UNCHANGED exceptRegistration

resetForm ==
  /\ regForm' = ResetRegForm
  /\ regTouched' = {}
  /\ timers' = CancelAll(timers)
  /\ emailAsync' = "none"
  /\ submitted' = FALSE
  /\ submittedData' = NoData
  /\ passwordStrength' = 0
  /\ regOp' = [name |-> "resetForm"]
  /\ UNCHANGED exceptRegistration

\* the values the user gives to the controls of the registration form
RegSamples ==
  [username        |-> {"jean"},
   email           |-> {"test@example.com", "jean@example.com"},
   password        |-> {"Abcdefgh1234"},
   confirmPassword |-> {"Abcdefgh1234", "Abcdefgh"},
   birthDate       |-> {"1990-05-20"},
   gender          |-> {"male"},
   acceptTerms     |-> {Checked, Unchecked},
   newsletter      |-> {Checked, Unchecked}]

editRegistration ==
  \E k \in RegControls : \E v \in RegSamples[k] : regSetValue(k, v)

NextRegistration ==
  \/ editRegistration
  \/ emailTimer
  \/ onSubmit
  \/ resetForm

SpecRegistration == Init /\ [][NextRegistration]_vars

\* the e-mail control edited while checks of its uniqueness are waiting
EmailSamples ==
  {"", "test@example.com", "user@example.com", "jean@example.com", "jean@example"}

editEmail == \E v \in EmailSamples : regSetValue("email", v)

NextEmailCheck ==
  \/ editEmail
  \/ emailTimer
  \/ resetForm

SpecEmailCheck == Init /\ [][NextEmailCheck]_vars

\* the password control edited, the form submitted and reset
PasswordSamples ==
  {"", "abc", "abcdefgh", "Abcdefgh", "abcdefgh1", "ABCDEFGH", "12345678",
   "Abcdefgh1234", "abcdefghijkl", "Ab1", "Abcdefgh12345678", "?",
   "a", "A", "1", "ABCDEFGHIJKL", "abcdefgh!", "Abcdefghijkl", "abcdefghijklmnop"}

editPassword == \E v \in PasswordSamples : regSetValue("password", v)

NextPassword ==
  \/ editPassword
  \/ onSubmit
  \/ resetForm

SpecPassword == Init /\ [][NextPassword]_vars

----------------------------------------------------------------------------
(* Operations of TemplateFormIntro *)

\* submittedData after the field f of the group g of formData took the value
\* v: a group object that submittedData shares with formData shows the edit
SubmittedAfterEdit(g, f, v) ==
  IF g \in tplShared THEN [tplSubmittedData EXCEPT ![g][f] = v] ELSE tplSubmittedData

\* [(ngModel)] writes the value v to the field f of the group g of formData
tplSetValue(g, f, v) ==
  /\ formData[g][f] # v
  /\ formData' = [formData EXCEPT ![g][f] = v]
  /\ tplSubmittedData' = SubmittedAfterEdit(g, f, v)
  /\ tplOp' = [name |-> "setValue"]
  /\ UNCHANGED <<tplSubmitted, tplSubmitError, tplShared>>
  /\ UNCHANGED exceptTemplate

\* [(ngModel)] writes formData.acceptTerms, a value and no object
tplSetAcceptTerms ==
  /\ formData' = [formData EXCEPT !.acceptTerms = ~formData.acceptTerms]
  /\ tplOp' = [name |-> "setValue"]
  /\ UNCHANGED <<tplSubmitted, tplSubmittedData, tplSubmitError, tplShared>>
  /\ UNCHANGED exceptTemplate

\* onSubmit that keeps formData itself, with its group objects
tplOnSubmit_Shallow(valid) ==
  /\ tplSubmitted' = TRUE
  /\ IF valid /\ passwordsMatch
     THEN /\ tplSubmittedData' = formData
          /\ tplShared' = FormDataGroups
          /\ tplSubmitError' = Null
     ELSE /\ tplSubmitError' = IF ~passwordsMatch THEN MismatchMessage ELSE InvalidMessage
          /\ UNCHANGED <<tplSubmittedData, tplShared>>
  /\ tplOp' = [name |-> "onSubmit", valid |-> valid]
  /\ UNCHANGED formData
  /\ UNCHANGED exceptTemplate

\* onSubmit(form), valid being form.valid
tplOnSubmit(valid) ==
  /\ tplSubmitted' = TRUE
  /\ IF valid /\ passwordsMatch
     THEN /\ tplSubmittedData' = DeepCopy(formData)
          /\ tplShared' = {}
          /\ tplSubmitError' = Null
     ELSE /\ tplSubmitError' = IF ~passwordsMatch THEN MismatchMessage ELSE InvalidMessage
          /\ UNCHANGED <<tplSubmittedData, tplShared>>
  /\ tplOp' = [name |-> "onSubmit", valid |-> valid]
  /\ UNCHANGED formData
  /\ UNCHANGED exceptTemplate

tplResetForm ==
  /\ formData' = EmptyFormData
  /\ tplSubmitted' = FALSE
  /\ tplSubmittedData' = NoData
  /\ tplSubmitError' = Null
  /\ tplShared' = {}
  /\ tplOp' = [name |-> "resetForm"]
  /\ UNCHANGED exceptTemplate

\* formData becomes a new object: nothing of it is shared any more
prefillForm ==
  /\ formData' = PrefilledFormData
  /\ tplShared' = {}
  /\ tplOp' = [name |-> "prefillForm"]
  /\ UNCHANGED <<tplSubmitted, tplSubmittedData, tplSubmitError>>
  /\ UNCHANGED exceptTemplate

clearForm ==
  /\ formData' = EmptyFormData
  /\ tplShared' = {}
  /\ tplOp' = [name |-> "clearForm"]
  /\ UNCHANGED <<tplSubmitted, tplSubmittedData, tplSubmitError>>
  /\ UNCHANGED exceptTemplate

\* the values typed in the fields of the template form
TemplateSamples ==
  [personalInfo |-> [firstName |-> {"Marie", "M"}, lastName |-> {}, birthDate |-> {}],
   contactInfo  |-> [email |-> {"marie.dupont"}, phone |-> {}, website |-> {}],
   passwords    |-> [password |-> {"SecurePass456!", "abc"},
                     confirmPassword |-> {"SecurePass456!", "abc"}]]

editTemplate ==
  \E g \in FormDataGroups : \E f \in DOMAIN TemplateSamples[g] :
     \E v \in TemplateSamples[g][f] : tplSetValue(g, f, v)

submitTemplate == \E valid \in BOOLEAN : tplOnSubmit(valid)

NextTemplate ==
  \/ editTemplate
  \/ tplSetAcceptTerms
  \/ submitTemplate
  \/ tplResetForm
  \/ prefillForm
  \/ clearForm

SpecTemplate == Init /\ [][NextTemplate]_vars

----------------------------------------------------------------------------
(* Operations of ReactiveFormIntro *)

\* the user gives the value v to the control f of the nested group g
introSetValue(g, f, v) ==
  /\ introForm[g][f] # v
  /\ introForm' = [introForm EXCEPT ![g][f] = v]
  /\ introOp' = "setValue"
  /\ UNCHANGED <<introTouched, introSubmitted, introSubmittedData, introSubmitError, showPassword>>
  /\ UNCHANGED exceptIntro

\* the user ticks or unticks acceptTerms
introSetAcceptTerms ==
  /\ introForm' = [introForm EXCEPT !.acceptTerms =
                     IF introForm.acceptTerms = Checked THEN Unchecked ELSE Checked]
  /\ introOp' = "setValue"
  /\ UNCHANGED <<introTouched, introSubmitted, introSubmittedData, introSubmitError, showPassword>>
  /\ UNCHANGED exceptIntro

\* the user gives the value v to the control at index i of additionalEmails
introSetEmail(i, v) ==
  /\ i \in 1..Len(introForm.additionalEmails)
  /\ introForm.additionalEmails[i].value # v
  /\ introForm' = [introForm EXCEPT !.additionalEmails[i].value = v]
  /\ introOp' = "setValue"
  /\ UNCHANGED <<introTouched, introSubmitted, introSubmittedData, introSubmitError, showPassword>>
  /\ UNCHANGED exceptIntro

addEmail ==
  /\ Len(introForm.additionalEmails) < MaxEmails
  /\ introForm' = [introForm EXCEPT !.additionalEmails =
                     Append(@, [value |-> "", touched |-> FALSE])]
  /\ introOp' = "addEmail"
  /\ UNCHANGED <<introTouched, introSubmitted, introSubmittedData, introSubmitError, showPassword>>
  /\ UNCHANGED exceptIntro

\* FormArray.removeAt(index) of a sequence indexed from 1; an index past the end
\* removes nothing
RemoveAt(seq, i) ==
  IF i \in 1..Len(seq)
  THEN [j \in 1..(Len(seq) - 1) |-> IF j < i THEN seq[j] ELSE seq[j + 1]]
  ELSE seq

removeEmail(i) ==
  /\ introForm' = [introForm EXCEPT !.additionalEmails = RemoveAt(@, i)]
  /\ introOp' = "removeEmail"
  /\ UNCHANGED <<introTouched, introSubmitted, introSubmittedData, introSubmitError, showPassword>>
  /\ UNCHANGED exceptIntro

\* markFormGroupTouched(registrationForm): every control, those of the array too
TouchAll(form) ==
  [form EXCEPT !.additionalEmails =
     [i \in 1..Len(form.additionalEmails) |-> [form.additionalEmails[i] EXCEPT !.touched = TRUE]]]

\* onSubmit that forgets the data of an earlier submission when the form is invalid
introOnSubmit_Forget ==
  /\ introSubmitted' = TRUE
  /\ introTouched' = IntroControls
  /\ introForm' = TouchAll(introForm)
  /\ IF IntroValid(introForm)
     THEN /\ introSubmittedData' = IntroValue(introForm)
          /\ introSubmitError' = Null
     ELSE /\ introSubmitError' = InvalidMessage
          /\ introSubmittedData' = NoData
  /\ introOp' = "onSubmit"
  /\ UNCHANGED showPassword
  /\ UNCHANGED exceptIntro

introOnSubmit ==
  /\ introSubmitted' = TRUE
  /\ introTouched' = IntroControls
  /\ introForm' = TouchAll(introForm)
  /\ IF IntroValid(introForm)
     THEN /\ introSubmittedData' = IntroValue(introForm)
          /\ introSubmitError' = Null
     ELSE /\ introSubmitError' = InvalidMessage
          /\ UNCHANGED introSubmittedData
  /\ introOp' = "onSubmit"
  /\ UNCHANGED showPassword
  /\ UNCHANGED exceptIntro

\* resetForm: the form reset, then the array emptied from its head
introResetForm ==
  /\ introForm' = [ResetIntroForm(introForm) EXCEPT !.additionalEmails = <<>>]
  /\ introTouched' = {}
  /\ introSubmitted' = FALSE
  /\ introSubmittedData' = NoData
  /\ introSubmitError' = Null
  /\ introOp' = "resetForm"
  /\ UNCHANGED showPassword
  /\ UNCHANGED exceptIntro

introPrefillForm ==
  /\ introForm' = PatchValue(introForm, PrefillPatch)
  /\ introOp' = "prefillForm"
  /\ UNCHANGED <<introTouched, introSubmitted, introSubmittedData, introSubmitError, showPassword>>
  /\ UNCHANGED exceptIntro

togglePasswordField ==
  /\ showPassword' = ~showPassword
  /\ introOp' = "togglePasswordField"
  /\ UNCHANGED <<introForm, introTouched, introSubmitted, introSubmittedData, introSubmitError>>
  /\ UNCHANGED exceptIntro

\* the values typed in the controls of the nested groups
IntroSamples ==
  [personalInfo |-> [firstName |-> {}, lastName |-> {}, birthDate |-> {}],
   contactInfo  |-> [email |-> {}, phone |-> {},
                     website |-> {"jeandupont.com/cv", "jean dupont"}],
   passwords    |-> [password |-> {}, confirmPassword |-> {"abc"}]]

\* the values typed in the controls of additionalEmails
AdditionalEmailSamples == {"jean@example.com", "jean"}

editIntro ==
  \E g \in IntroGroups : \E f \in DOMAIN IntroSamples[g] :
     \E v \in IntroSamples[g][f] : introSetValue(g, f, v)

editAdditionalEmail ==
  \E i \in 1..MaxEmails : \E v \in AdditionalEmailSamples : introSetEmail(i, v)

callRemoveEmail == \E i \in 1..MaxEmails : removeEmail(i)

NextIntro ==
  \/ editIntro
  \/ introSetAcceptTerms
  \/ editAdditionalEmail
  \/ addEmail
  \/ callRemoveEmail
  \/ introOnSubmit
  \/ introResetForm
  \/ introPrefillForm
  \/ togglePasswordField

SpecIntro == Init /\ [][NextIntro]_vars

----------------------------------------------------------------------------
(* Operations of SurveyFormComponent *)

\* the user answers the question id, not a checkbox question, with v
surveySetValue(id, v) ==
  /\ surveyForm[id] # v
  /\ surveyForm' = [surveyForm EXCEPT ![id] = v]
  /\ surveyOp' = "setValue"
  /\ UNCHANGED <<surveySubmitted, surveySubmittedData>>
  /\ UNCHANGED exceptSurvey

\* the user ticks or unticks the option o of the checkbox question id
surveyToggle(id, o) ==
  /\ surveyForm' = [surveyForm EXCEPT ![id][o] = IF @ = Checked THEN Unchecked ELSE Checked]
  /\ surveyOp' = "setValue"
  /\ UNCHANGED <<surveySubmitted, surveySubmittedData>>
  /\ UNCHANGED exceptSurvey

surveyOnSubmit ==
  /\ surveySubmitted' = TRUE
  /\ IF SurveyValid(surveyForm)
     THEN surveySubmittedData' = surveyForm
     ELSE UNCHANGED surveySubmittedData
  /\ surveyOp' = "onSubmit"
  /\ UNCHANGED surveyForm
  /\ UNCHANGED exceptSurvey

resetSurvey ==
  /\ surveyForm' = ResetSurveyForm
  /\ surveySubmitted' = FALSE
  /\ surveySubmittedData' = NoData
  /\ surveyOp' = "resetSurvey"
  /\ UNCHANGED exceptSurvey

\* the answers given to the questions that are not checkbox questions
SurveySamples ==
  [satisfaction   |-> {"5", "2"},
   recommendation |-> {"likely"},
   improvements   |-> {"plus d'exemples"},
   contact        |-> {"jean@example.com", "jean"}]

\* the options the user ticks and unticks
FeatureSamples == {"ui", "docs"}

answerSurvey ==
  \E id \in DOMAIN SurveySamples : \E v \in SurveySamples[id] : surveySetValue(id, v)

tickFeature == \E o \in FeatureSamples : surveyToggle("features", o)

NextSurvey ==
  \/ answerSurvey
  \/ tickFeature
  \/ surveyOnSubmit
  \/ resetSurvey

SpecSurvey == Init /\ [][NextSurvey]_vars

----------------------------------------------------------------------------
(* Operations of DynamicTodoListComponent; an index counts from 1 *)

addTodo ==
  /\ Len(todos) < MaxTodos
  /\ todos' = Append(todos, createTodoControl("", "medium", FALSE, Today))
  /\ todoOp' = [name |-> "addTodo"]
  /\ UNCHANGED <<filterType, sortBy>>
  /\ UNCHANGED exceptTodo

removeTodo(index) ==
  /\ todos' = RemoveAt(todos, index)
  /\ todoOp' = [name |-> "removeTodo", index |-> index]
  /\ UNCHANGED <<filterType, sortBy>>
  /\ UNCHANGED exceptTodo

\* toggleTodoComplete that sets the flag instead of flipping it
toggleTodoComplete_Set(index) ==
  /\ index \in 1..Len(todos)
  /\ todos' = [todos EXCEPT ![index].completed = TRUE]
  /\ todoOp' = [name |-> "toggleTodoComplete", index |-> index]
  /\ UNCHANGED <<filterType, sortBy>>
  /\ UNCHANGED exceptTodo

\* with no todo at the index the handler throws and changes nothing
toggleTodoComplete(index) ==
  /\ index \in 1..Len(todos)
  /\ todos' = [todos EXCEPT ![index].completed = ~@]
  /\ todoOp' = [name |-> "toggleTodoComplete", index |-> index]
  /\ UNCHANGED <<filterType, sortBy>>
  /\ UNCHANGED exceptTodo

completeAll ==
  /\ todos' = [i \in 1..Len(todos) |-> [todos[i] EXCEPT !.completed = TRUE]]
  /\ todoOp' = [name |-> "completeAll"]
  /\ UNCHANGED <<filterType, sortBy>>
  /\ UNCHANGED exceptTodo

\* the user gives the value v to the control f of the todo at index
todoSetValue(index, f, v) ==
  /\ index \in 1..Len(todos)
  /\ todos[index][f] # v
  /\ todos' = [todos EXCEPT ![index][f] = v]
  /\ todoOp' = [name |-> "setValue"]
  /\ UNCHANGED <<filterType, sortBy>>
  /\ UNCHANGED exceptTodo

\* the user chooses a filter and an order
setFilter(type, by) ==
  /\ filterType' = type
  /\ sortBy' = by
  /\ todoOp' = [name |-> "setFilter"]
  /\ UNCHANGED todos
  /\ UNCHANGED exceptTodo

resetFilters ==
  /\ filterType' = "all"
  /\ sortBy' = "date"
  /\ todoOp' = [name |-> "resetFilters"]
  /\ UNCHANGED todos
  /\ UNCHANGED exceptTodo

\* getFilteredTodos, called to show the list: with the filter 'all' it sorts
\* the array of the controls itself, with another filter a copy of it
getFilteredTodos ==
  /\ todos' = IF filterType = "all" THEN Sort(todos, sortBy) ELSE todos
  /\ todoOp' = [name |-> "getFilteredTodos",
                result |-> Sort(Filter(todos, filterType), sortBy)]
  /\ UNCHANGED <<filterType, sortBy>>
  /\ UNCHANGED exceptTodo

\* the values given to the controls of a todo
TodoSamples ==
  [priority  |-> {"high", "low"},
   completed |-> BOOLEAN]

editTodo ==
  \E index \in 1..MaxTodos : \E f \in DOMAIN TodoSamples : \E v \in TodoSamples[f] :
     todoSetValue(index, f, v)

callRemoveTodo == \E index \in 1..MaxTodos : removeTodo(index)

callToggleTodoComplete == \E index \in 1..MaxTodos : toggleTodoComplete(index)

chooseFilter ==
  \E type \in {"all", "completed", "pending", "urgent"} : \E by \in {"date", "priority"} :
     setFilter(type, by)

NextTodo ==
  \/ addTodo
  \/ callRemoveTodo
  \/ callToggleTodoComplete
  \/ completeAll
  \/ editTodo

SpecTodo == Init /\ [][NextTodo]_vars

\* the list edited and shown under the filters
NextTodoView ==
  \/ NextTodo
  \/ chooseFilter
  \/ resetFilters
  \/ getFilteredTodos

SpecTodoView == Init /\ [][NextTodoView]_vars

----------------------------------------------------------------------------
(* Operations of DocumentationComponent *)

\* navigateToChapter(chapter): the router is asked for the URL of the chapter
navigateToChapter(chapter) == ChapterUrl(chapter.id)

previousChapter ==
  /\ IF currentChapterIndex > 0
     THEN /\ navigating' = navigateToChapter(chapters[currentChapterIndex])
          /\ docOp' = [name |-> "previousChapter", requested |-> navigating']
     ELSE /\ UNCHANGED navigating
          /\ docOp' = [name |-> "previousChapter", requested |-> Null]
  /\ UNCHANGED <<routerUrl, currentChapter, currentChapterIndex, sidebarOpen>>
  /\ UNCHANGED exceptDoc

nextChapter ==
  /\ IF currentChapterIndex < Len(chapters) - 1
     THEN /\ navigating' = navigateToChapter(chapters[currentChapterIndex + 2])
          /\ docOp' = [name |-> "nextChapter", requested |-> navigating']
     ELSE /\ UNCHANGED navigating
          /\ docOp' = [name |-> "nextChapter", requested |-> Null]
  /\ UNCHANGED <<routerUrl, currentChapter, currentChapterIndex, sidebarOpen>>
  /\ UNCHANGED exceptDoc

\* a link of the page or the address bar asks the router for a URL
followLink ==
  /\ \E url \in DocUrls : navigating' = url
  /\ docOp' = [name |-> "followLink"]
  /\ UNCHANGED <<routerUrl, currentChapter, currentChapterIndex, sidebarOpen>>
  /\ UNCHANGED exceptDoc

\* a router event before the URL changes: the subscription of ngOnInit runs
\* updateCurrentChapter
navigationStart ==
  /\ navigating # Null
  /\ currentChapter' = updateCurrentChapter(routerUrl, currentChapter, currentChapterIndex).chapter
  /\ currentChapterIndex' = updateCurrentChapter(routerUrl, currentChapter, currentChapterIndex).index
  /\ docOp' = [name |-> "routerEvent", url |-> routerUrl]
  /\ UNCHANGED <<routerUrl, navigating, sidebarOpen>>
  /\ UNCHANGED exceptDoc

\* the router takes the requested URL and emits its event
navigationEnd ==
  /\ navigating # Null
  /\ routerUrl' = navigating
  /\ navigating' = Null
  /\ currentChapter' = updateCurrentChapter(routerUrl', currentChapter, currentChapterIndex).chapter
  /\ currentChapterIndex' = updateCurrentChapter(routerUrl', currentChapter, currentChapterIndex).index
  /\ docOp' = [name |-> "routerEvent", url |-> routerUrl']
  /\ UNCHANGED sidebarOpen
  /\ UNCHANGED exceptDoc

toggleSidebar ==
  /\ sidebarOpen' = ~sidebarOpen
  /\ docOp' = [name |-> "toggleSidebar"]
  /\ UNCHANGED <<routerUrl, navigating, currentChapter, currentChapterIndex>>
  /\ UNCHANGED exceptDoc

hasPrevious == currentChapterIndex > 0

hasNext == currentChapterIndex < Len(chapters) - 1

NextDoc ==
  \/ previousChapter
  \/ nextChapter
  \/ followLink
  \/ navigationStart
  \/ navigationEnd
  \/ toggleSidebar

SpecDoc == Init /\ [][NextDoc]_vars

----------------------------------------------------------------------------
(* Properties of the checkout wizard *)

forms == <<cartForm, shippingForm, paymentForm, confirmationForm>>

AllTouched(name) == touched[name] = Controls(name)

BothAccepted == confirmationForm.acceptTerms = TRUE /\ confirmationForm.acceptPrivacy = TRUE

\* C1: in every reachable state currentStep is an integer in 1..4 (totalSteps = 4).
C1_StepInRange == currentStep \in 1..4 /\ totalSteps = 4

\* nextStep was called on the last step with a valid confirmation form, and
\* previousStep was not applicable: the position stayed at 4
C1_Witness == currentStep = 4 /\ lastOp = "nextStep" /\ BothAccepted

\* C2 (as claimed): orderData exists if and only if currentStep = 4 and an order was
\* placed with a valid confirmation form; in particular orderData is never non-null
\* while currentStep < 4.
C2_OrderOnlyAtLastStep ==
  (orderData # NoOrder) <=> (currentStep = 4 /\ Len(placed) > 0)

\* C3: when the form of the current step is invalid, nextStep leaves currentStep
\* unchanged, marks every control of that form as touched, and changes no field
\* value and not orderData; nextStep changes currentStep only from a valid step.
C3_NextStepInvalid ==
  [][/\ (lastOp' = "nextStep" /\ ~FormValid(getCurrentForm)) =>
          /\ currentStep' = currentStep
          /\ touched'[getCurrentForm] = Controls(getCurrentForm)
          /\ \A f \in FormNames \ {getCurrentForm} : touched'[f] = touched[f]
          /\ UNCHANGED forms
          /\ UNCHANGED orderData
     /\ (lastOp' = "nextStep" /\ currentStep' # currentStep) => FormValid(getCurrentForm)
    ]_vars

\* nextStep has just been refused on the payment step, whose form is invalid
C3_Witness ==
  /\ lastOp = "nextStep"
  /\ currentStep = 3
  /\ ~PaymentValid(paymentForm)
  /\ AllTouched("payment")

\* C4: when the form of the current step is valid and currentStep < 4, nextStep
\* increases currentStep by exactly one and changes no field value, no touched flag
\* and not orderData.
C4_NextStepValid ==
  [][(lastOp' = "nextStep" /\ FormValid(getCurrentForm) /\ currentStep < 4) =>
        /\ currentStep' = currentStep + 1
        /\ UNCHANGED forms
        /\ UNCHANGED touched
        /\ UNCHANGED orderData
    ]_vars

\* nextStep has just moved the wizard from the shipping step to the payment step
C4_Witness ==
  /\ lastOp = "nextStep"
  /\ currentStep = 3
  /\ touched["payment"] = {}
  /\ ShippingValid(shippingForm)

\* C5: previousStep at step s > 1 yields step s - 1 whatever the validity of any
\* form, is a no-op at step 1, and never alters a field value.
C5_PreviousStep ==
  [][lastOp' = "previousStep" =>
        /\ currentStep > 1 => currentStep' = currentStep - 1
        /\ currentStep = 1 => currentStep' = 1
        /\ UNCHANGED forms
        /\ UNCHANGED touched
        /\ UNCHANGED orderData
    ]_vars

\* previousStep has just left step 3 while the payment and the shipping forms were
\* both invalid
C5_Witness ==
  /\ lastOp = "previousStep"
  /\ currentStep = 2
  /\ ~PaymentValid(paymentForm)
  /\ ~ShippingValid(shippingForm)

\* C6: placeOrder records an order only when acceptTerms and acceptPrivacy both
\* equal true, and otherwise leaves orderData, currentStep and every field value
\* unchanged; nextStep on step 4 treats the confirmation step as valid exactly when
\* both flags equal true (it marks the form touched exactly when they do not).
C6_BothFlagsRequired ==
  [][/\ (lastOp' = "placeOrder" /\ BothAccepted) =>
          /\ orderData' # NoOrder
          /\ Len(placed') = Len(placed) + 1
     /\ (lastOp' = "placeOrder" /\ ~BothAccepted) =>
          /\ UNCHANGED orderData
          /\ UNCHANGED placed
          /\ UNCHANGED currentStep
          /\ UNCHANGED forms
     /\ (lastOp' = "nextStep" /\ currentStep = 4 /\ BothAccepted) => UNCHANGED touched
     /\ (lastOp' = "nextStep" /\ currentStep = 4 /\ ~BothAccepted) =>
          touched'["confirmation"] = {"acceptTerms", "acceptPrivacy"}
    ]_vars

\* placeOrder has just been refused with acceptTerms true and acceptPrivacy false
C6_Witness ==
  /\ lastOp = "placeOrder"
  /\ orderData = NoOrder
  /\ confirmationForm.acceptTerms = TRUE
  /\ confirmationForm.acceptPrivacy = FALSE

\* C7 (as claimed): with payment method "paypal" the card rules are not evaluated:
\* the payment step is valid whatever the card fields hold.
C7_PaypalSkipsCardRules ==
  paymentForm.paymentMethod = "paypal" => PaymentValid(paymentForm)

\* C8 (as claimed): once orderData is non-null, no later operation changes it.
C8_OrderImmutable == [][orderData # NoOrder => orderData' = orderData]_vars

\* C9 (as claimed): any two successful placeOrder calls of a session produce
\* different order numbers, and every order number starts with "ORD-".
C9_OrderNumbersUnique ==
  /\ \A i, j \in 1..Len(placed) : i # j => placed[i] # placed[j]
  /\ \A i \in 1..Len(placed) : SubSeq(placed[i], 1, 4) = "ORD-"

\* the nearest hundredth r of the amount u in thousandths, the larger on a tie
IsHalfUp(r, u) == 10 * r - 5 <= u /\ u < 10 * r + 5

\* the figures t are those of the cart with the shipping method m: subtotal the sum
\* of price * quantity, shipping the price of m, tax a fifth of their sum, total
\* the sum of the three, each presented as the half-up rounding of its exact value
TotalsOf(t, m) ==
  LET sub  == 99990 * 1 + 39990 * 1
      ship == CASE m = "standard" -> 5990
                [] m = "express" -> 14990
                [] m = "overnight" -> 29990
      tax  == (sub + ship) \div 5
  IN  /\ 5 * tax = sub + ship
      /\ IsHalfUp(t.subtotal, sub)
      /\ IsHalfUp(t.shipping, ship)
      /\ IsHalfUp(t.tax, tax)
      /\ IsHalfUp(t.total, sub + ship + tax)

\* C10: for each of the three shipping methods getTotals yields subtotal, shipping,
\* tax = (subtotal + shipping) * taxRate and total = subtotal + shipping + tax, each
\* the 2-decimal rounding of its unrounded value; the totals captured by placeOrder
\* are those of the shipping method captured with them.
C10_Totals ==
  /\ cartForm.shippingMethod \in {"standard", "express", "overnight"} =>
        TotalsOf(getTotals, cartForm.shippingMethod)
  /\ (orderData # NoOrder /\
      orderData.cart.shippingMethod \in {"standard", "express", "overnight"}) =>
        TotalsOf(orderData.totals, orderData.cart.shippingMethod)

\* an order was placed with express shipping: 139.98 + 14.99, tax 30.99, total 185.96
C10_Witness ==
  /\ orderData # NoOrder
  /\ orderData.cart.shippingMethod = "express"
  /\ orderData.totals = [subtotal |-> 13998, shipping |-> 1499, tax |-> 3099,
                         total |-> 18596]

\* C11 (as claimed): with a shippingMethod outside {standard, express, overnight},
\* empty or not, nextStep at step 1 does not advance.
C11_CartNeedsKnownMethod ==
  [][(/\ lastOp' = "nextStep"
      /\ currentStep = 1
      /\ cartForm.shippingMethod \notin {"standard", "express", "overnight"}) =>
        currentStep' = 1
    ]_vars

\* C15 (as claimed): with shipping "standard" the totals are subtotal 139.98,
\* shipping 5.99, tax 29.19 and total 174.97.
C15_StandardTotalsAsClaimed ==
  cartForm.shippingMethod = "standard" =>
    getTotals = [subtotal |-> 13998, shipping |-> 599, tax |-> 2919, total |-> 17497]

\* C15 (amended): with shipping "standard" the totals are subtotal 139.98,
\* shipping 5.99, tax 29.19 and total 175.16, also in the order placeOrder records.
C15_StandardTotals ==
  /\ cartForm.shippingMethod = "standard" =>
       getTotals = [subtotal |-> 13998, shipping |-> 599, tax |-> 2919, total |-> 17516]
  /\ (orderData # NoOrder /\ orderData.cart.shippingMethod = "standard") =>
       orderData.totals.total = 17516

\* an order with standard shipping has just been placed
C15_Witness ==
  /\ lastOp = "placeOrder"
  /\ orderData # NoOrder
  /\ orderData.cart.shippingMethod = "standard"
  /\ orderData.totals.tax = 2919

\* C16 (as claimed): whenever nextStep does not increment currentStep, every control
\* of the current step is touched afterwards, also on step 4 with a valid
\* confirmation form.
C16_TouchedWheneverNotAdvanced ==
  [][(lastOp' = "nextStep" /\ currentStep' = currentStep) =>
        touched'[getCurrentForm] = Controls(getCurrentForm)
    ]_vars

\* C16 (amended): when nextStep does not increment currentStep because the form of
\* the current step is invalid, every control of that step is touched afterwards;
\* when the form is valid the wizard is on step 4 and nextStep changes no touched
\* flag.
C16_TouchedWhenInvalid ==
  [][(lastOp' = "nextStep" /\ currentStep' = currentStep) =>
        IF FormValid(getCurrentForm)
        THEN currentStep = 4 /\ UNCHANGED touched
        ELSE touched'[getCurrentForm] = Controls(getCurrentForm)
    ]_vars

\* nextStep has run on step 4 with a valid confirmation form whose controls were
\* never touched
C16_Witness ==
  /\ lastOp = "nextStep"
  /\ currentStep = 4
  /\ BothAccepted
  /\ touched["confirmation"] = {}

\* C14: markFormTouched is idempotent: a second call in a row on the same form
\* leaves the touched flags as the first call left them (all controls of the form
\* touched, the other forms as before), and no call changes a field value,
\* currentStep or orderData.
C14_MarkTouchedIdempotent ==
  [][\A f \in FormNames \cup {Null} :
        /\ MarkTouched(MarkTouched(touched, f), f) = MarkTouched(touched, f)
        /\ lastOp' = "markFormTouched:" \o f =>
              /\ f # Null => touched'[f] = Controls(f)
              /\ \A g \in FormNames \ {f} : touched'[g] = touched[g]
              /\ lastOp = "markFormTouched:" \o f => touched' = touched
              /\ UNCHANGED forms
              /\ UNCHANGED currentStep
              /\ UNCHANGED orderData
    ]_vars

\* markFormTouched has just run on the payment form while one control of the
\* shipping form was touched on its own
C14_Witness ==
  /\ lastOp = "markFormTouched:payment"
  /\ touched["payment"] = Controls("payment")
  /\ Cardinality(touched["shipping"]) = 1
  /\ touched["cart"] = {}

\* sample values that are, by the rules in words, a well-formed e-mail address, a
\* phone number of the permissive class, five digits, sixteen digits, an MM/YY
\* expiry with month 01 to 12, and three or four digits
WellFormedEmails == {"jean.dupont@example.com"}

PermissivePhones == {"+33 6 12 34 56 78"}

FiveDigits == {"75001"}

SixteenDigits == {"4111111111111111"}

ExpiryDates == {"12/25"}

ThreeOrFourDigits == {"123", "1234"}

\* the rules of the shipping step as C12 lists them (the city is not among them)
ShippingRulesAsClaimed(f) ==
  /\ Len(f.firstName) >= 2
  /\ Len(f.lastName) >= 2
  /\ f.email \in WellFormedEmails
  /\ f.phone \in PermissivePhones
  /\ f.postalCode \in FiveDigits
  /\ Len(f.address) >= 5
  /\ f.country # ""

\* a 4-digit postal code makes the step invalid with a pattern error, and nextStep
\* at step 2 does not advance
ShortPostalCodeRefused ==
  /\ shippingForm.postalCode = "7500" =>
       /\ ~ShippingValid(shippingForm)
       /\ PostalCodeErrors(shippingForm.postalCode) = {"pattern"}
  /\ (lastOp' = "nextStep" /\ currentStep = 2 /\ shippingForm.postalCode = "7500") =>
       currentStep' = 2

\* C12 (as claimed): the shipping step is valid exactly when first and last name have
\* at least 2 characters, the email is well-formed, the phone matches the phone
\* class, the postal code is 5 digits, the address has at least 5 characters and a
\* country is selected; postal code "7500" is refused with a pattern error.
C12_ShippingValidAsClaimed ==
  [][/\ ShippingValid(shippingForm) <=> ShippingRulesAsClaimed(shippingForm)
     /\ ShortPostalCodeRefused
    ]_vars

\* C12 (amended): the shipping step is valid exactly when the rules of C12 hold and
\* the city has at least 2 characters; nextStep at step 2 advances exactly then;
\* postal code "7500" is refused with a pattern error.
C12_ShippingValid ==
  [][/\ ShippingValid(shippingForm) <=>
          (ShippingRulesAsClaimed(shippingForm) /\ Len(shippingForm.city) >= 2)
     /\ (lastOp' = "nextStep" /\ currentStep = 2) =>
          (currentStep' = 3 <=>
             (ShippingRulesAsClaimed(shippingForm) /\ Len(shippingForm.city) >= 2))
     /\ ShortPostalCodeRefused
    ]_vars

\* nextStep has just been refused on the shipping step, where the postal code
\* "7500" is the only fault
C12_Witness ==
  /\ lastOp = "nextStep"
  /\ currentStep = 2
  /\ shippingForm = [InitShippingForm EXCEPT !.postalCode = "7500"]
  /\ touched["shipping"] = Controls("shipping")

\* C13 (as claimed): with payment method "card" the payment step is valid exactly
\* when the cardholder name has at least 5 characters, the card number is 16 digits,
\* the expiry is MM/YY with month 01 to 12 and the CVV is 3 or 4 digits; and a valid
\* payment step has a payment method among card, paypal and bank.
C13_PaymentValidAsClaimed ==
  /\ paymentForm.paymentMethod = "card" =>
       (PaymentValid(paymentForm) <=>
          /\ Len(paymentForm.cardName) >= 5
          /\ paymentForm.cardNumber \in SixteenDigits
          /\ paymentForm.expiryDate \in ExpiryDates
          /\ paymentForm.cvv \in ThreeOrFourDigits)
  /\ PaymentValid(paymentForm) => paymentForm.paymentMethod \in {"card", "paypal", "bank"}

----------------------------------------------------------------------------
(* Properties of the registration form *)

\* C17 as claimed: a callback of the e-mail check answers for the value its
\* request was made with, so that after an edit of the field in between the
\* verdict is emailTaken or 'unique' according to the requested value, whatever
\* the field holds when the callback runs.
C17_VerdictOfRequestedValue ==
  (regOp.name = "emailTimer") => (regOp.verdict = EmailVerdict(regOp.requested))

\* C17: a callback of the e-mail check answers for the value the field holds
\* when it runs: its verdict is emailTaken exactly when that value is in
\* usedEmails; a verdict reaches the control only when the field still holds the
\* requested value, and the verdict the control holds is the one of its value.
C17_VerdictOfCurrentValue ==
  /\ (regOp.name = "emailTimer") =>
        /\ regOp.verdict = (IF \E i \in 1..Len(usedEmails) : usedEmails[i] = regOp.value
                            THEN "taken" ELSE "unique")
        /\ regOp.live => (regOp.requested = regOp.value /\ emailAsync = regOp.verdict)
  /\ (emailAsync = "taken") => (\E i \in 1..Len(usedEmails) : usedEmails[i] = regForm.email)
  /\ (emailAsync = "unique") => (\A i \in 1..Len(usedEmails) : usedEmails[i] # regForm.email)

\* a callback ran after the field was edited from a used e-mail to an unused
\* one or back
C17_Witness ==
  /\ regOp.name = "emailTimer"
  /\ regOp.requested # regOp.value
  /\ EmailVerdict(regOp.requested) # EmailVerdict(regOp.value)
  /\ regOp.value \in {"jean@example.com", "user@example.com"}

\* what keeps onSubmit from recording, as the claim lists it
Blocked ==
  \/ regForm.password # regForm.confirmPassword
  \/ regForm.acceptTerms # Checked
  \/ emailAsync \in {"pending", "taken"}

\* C18: onSubmit always sets submitted and marks every control touched; it
\* leaves submittedData as it was while the passwords differ, acceptTerms is not
\* true or the e-mail check is pending or reported emailTaken, and what it
\* records is the value of a valid form.
C18_SubmitRecordsOnlyValid ==
  [][(regOp'.name = "onSubmit") =>
        /\ submitted' = TRUE
        /\ regTouched' = RegControls
        /\ Blocked => (submittedData' = submittedData)
        /\ (submittedData' # submittedData) => (RegValid /\ submittedData' = regForm)
        /\ RegValid => (submittedData' = regForm)]_vars

\* onSubmit recorded a valid form earlier and has now run on a form that is
\* kept from recording
C18_Witness ==
  /\ regOp.name = "onSubmit"
  /\ submitted = TRUE
  /\ regTouched = RegControls
  /\ submittedData # NoData
  /\ submittedData # regForm
  /\ Blocked

\* C19: calculatePasswordStrength yields an integer in 0..5 for every password
\* and 0 for the empty and the null password, and passwordStrength is always
\* calculatePasswordStrength of the value of the password control.
C19_PasswordStrength ==
  /\ \A p \in PasswordSamples \cup {Null} : calculatePasswordStrength(p) \in 0..5
  /\ calculatePasswordStrength("") = 0 /\ calculatePasswordStrength(Null) = 0
  /\ calculatePasswordStrength("abc") = 1
  /\ calculatePasswordStrength("Abcdefgh") = 3
  /\ calculatePasswordStrength("Abcdefgh1234") = 5
  /\ passwordStrength \in 0..5
  /\ passwordStrength = calculatePasswordStrength(regForm.password)
  /\ (regForm.password = "Abcdefgh1234") => (passwordStrength = 5)
  /\ (regForm.password \in {"", Null}) => (passwordStrength = 0)

\* the form was submitted with a password of full strength
C19_Witness ==
  /\ regOp.name = "onSubmit"
  /\ regForm.password = "Abcdefgh1234"
  /\ passwordStrength = 5

\* C20: resetForm leaves submitted false, submittedData null, passwordStrength
\* 0, newsletter true and every other control null, and an onSubmit that
\* follows it directly records no submittedData.
C20_ResetForm ==
  [][/\ (regOp'.name = "resetForm") =>
           /\ submitted' = FALSE
           /\ submittedData' = NoData
           /\ passwordStrength' = 0
           /\ regForm'.newsletter = Checked
           /\ \A k \in RegControls \ {"newsletter"} : regForm'[k] = Null
     /\ (regOp.name = "resetForm" /\ regOp'.name = "onSubmit") =>
           (submitted' = TRUE /\ submittedData' = NoData)]_vars

\* the form was reset and submitted without an edit in between
C20_Witness ==
  /\ regOp.name = "onSubmit"
  /\ regForm = ResetRegForm
  /\ submitted = TRUE
  /\ submittedData = NoData

----------------------------------------------------------------------------
(* Properties of the template form *)

\* C21: onSubmit of the template form records a copy of formData that shares
\* nothing with it, and leaves submitError null, exactly when form.valid holds
\* and the two passwords are equal; otherwise it leaves submittedData as it was
\* and sets submitError, to the mismatch message when the passwords differ and
\* to the invalid-form message otherwise.  An edit, prefillForm and clearForm
\* leave submittedData as it was.
C21_TemplateSubmit ==
  [][/\ (tplOp'.name = "onSubmit") =>
           /\ tplSubmitted' = TRUE
           /\ IF tplOp'.valid /\ formData.passwords.password = formData.passwords.confirmPassword
              THEN /\ tplSubmittedData' = formData
                   /\ tplShared' = {}
                   /\ tplSubmitError' = Null
              ELSE /\ tplSubmittedData' = tplSubmittedData
                   /\ tplSubmitError' =
                        IF formData.passwords.password # formData.passwords.confirmPassword
                        THEN "Les mots de passe ne correspondent pas"
                        ELSE "Veuillez corriger les erreurs du formulaire"
     /\ (tplOp'.name \in {"setValue", "prefillForm", "clearForm"}) =>
           (tplSubmittedData' = tplSubmittedData)]_vars

\* a form was recorded, then edited to passwords that differ and submitted
\* again with form.valid false: the mismatch message, the recorded data kept
C21_Witness ==
  /\ tplOp.name = "onSubmit"
  /\ tplOp.valid = FALSE
  /\ tplSubmittedData # NoData
  /\ tplSubmittedData # formData
  /\ formData.passwords.password # formData.passwords.confirmPassword
  /\ tplSubmitError = MismatchMessage

----------------------------------------------------------------------------
(* Properties of the reactive form *)

\* C22 as claimed: submitError and submittedData of the reactive form are never
\* both non-null.
C22_ErrorExcludesData == introSubmitError = Null \/ introSubmittedData = NoData

----------------------------------------------------------------------------
(* Properties of the survey *)

\* C23 as claimed: the survey is not recorded (submittedData non-null) with a
\* question configured required: true unanswered; for the checkbox question
\* 'features' an answer is at least one option checked.
C23_RequiredAnswered ==
  (surveySubmittedData # NoData) =>
     \A i \in 1..Len(questions) :
        questions[i].required =>
           IF questions[i].type = "checkbox"
           THEN \E o \in OptionsOf(questions[i].id) :
                   surveySubmittedData[questions[i].id][o] = Checked
           ELSE surveySubmittedData[questions[i].id] \notin {"", Null}

----------------------------------------------------------------------------
(* Properties of the todo list *)

\* C24: in every reachable state of the todo list getStats gives completed +
\* pending = total = the number of todos of the array, and urgent <= pending.
C24_Stats ==
  /\ getStats.completed + getStats.pending = getStats.total
  /\ getStats.total = Len(todos)
  /\ getStats.urgent <= getStats.pending

\* a todo was added to two pending todos, one of them urgent, and one completed
C24_Witness ==
  /\ todoOp.name = "addTodo"
  /\ getStats = [total |-> 3, completed |-> 1, pending |-> 2, urgent |-> 1]

\* C25: completeAll leaves every todo completed (pending = 0, urgent = 0,
\* completed = total) and changes nothing else of any todo, neither their number
\* nor their order; toggleTodoComplete(i) negates the completed flag of the todo
\* at index i and changes nothing else, so that a second call restores the list.
C25_CompleteAllAndToggle ==
  [][/\ (todoOp'.name = "completeAll") =>
           /\ Len(todos') = Len(todos)
           /\ \A i \in 1..Len(todos) : todos'[i] = [todos[i] EXCEPT !.completed = TRUE]
           /\ getStatsOf(todos').pending = 0
           /\ getStatsOf(todos').urgent = 0
           /\ getStatsOf(todos').completed = getStatsOf(todos').total
     /\ (todoOp'.name = "toggleTodoComplete") =>
           /\ Len(todos') = Len(todos)
           /\ todos'[todoOp'.index].completed = ~todos[todoOp'.index].completed
           /\ \A i \in 1..Len(todos) :
                 todos'[i] = IF i = todoOp'.index
                             THEN [todos[i] EXCEPT !.completed = todos'[i].completed]
                             ELSE todos[i]
           /\ [todos' EXCEPT ![todoOp'.index].completed = ~@] = todos]_vars

\* toggleTodoComplete ran on the first todo a second time and the list is the
\* one the component started with
C25_Witness ==
  /\ todoOp.name = "toggleTodoComplete"
  /\ todoOp.index = 1
  /\ todos = InitTodos

----------------------------------------------------------------------------
(* Properties of the documentation reader *)

KnownChapterIds ==
  {"index", "core-concepts", "form-classes", "directives", "state-properties",
   "validation", "reactive-programming", "modules", "patterns"}

====
